---- MODULE Spec2Model ----
(***************************************************************************)
(* ndarray: the Core shape/stride descriptor (detail/Core.h), the array    *)
(* view (ArrayBase.h) and the view casts (casts.h), as a heap of           *)
(* reference-counted Cores, one Manager and a set of array views.          *)
(*                                                                         *)
(* Vectors (Vector<int,N>) are sequences; the C++ index k (0-based) is the *)
(* TLA+ index k+1.  A Core<R> object is the chain Core<R> : Core<R-1> :    *)
(* ... : Core<0>; level N of the chain holds _size and _stride of          *)
(* dimension R-N, and the Core<0> base holds _manager and _rc.             *)
(***************************************************************************)
EXTENDS Integers, Sequences, FiniteSets, TLC

\* ------------------------------------------------------------------ bounds
MaxRank   == 3      \* largest ND of an array created
MaxSize   == 3      \* largest size of one dimension at creation
MaxStride == 2      \* the explicit strides handed to create(shape, strides) are 1 or this
MaxElems  == 6      \* largest number of elements of an array created
MaxViews  == 3      \* array views ever constructed in one run
CastViews == 2      \* array views constructed in a run of the cast operations
IndexViews == 2     \* array views constructed in a run of the element accesses
PermViews == 2      \* array views constructed in a run of the transposes by order
MaxCores  == 3      \* Core objects ever allocated in one run
BaseAddr  == 8      \* address of the first element of the Manager's buffer
MaxLen    == 2      \* largest length N of a Vector<int,N> operated on
MaxVal    == 2      \* largest element and scalar of the Vector operations

Null      == 0      \* the null pointer (data, Core or Manager)
TheManager == 1     \* the one Manager of the model

ViewIds == 1..MaxViews
CoreIds == 1..MaxCores

VARIABLES
    cores,      \* CoreIds -> Core object
    manager,    \* the Manager: its reference count and how often its buffer was released
    views,      \* ViewIds -> array view (ArrayBase: _data, _core)
    made,       \* the arguments of the create() call that built the first Core
    access,     \* the last operator[](Index const &) call and the address it referenced
    vec         \* the last Vector operation: its operands and its result

vars == <<cores, manager, views, made, access, vec>>

\* ------------------------------------------------------------ Vector<int,N>
Zeros(n) == [k \in 1..n |-> 0]

RECURSIVE SeqProduct(_, _, _)
SeqProduct(s, lo, hi) == IF lo > hi THEN 1 ELSE s[lo] * SeqProduct(s, lo + 1, hi)

RECURSIVE DotProduct(_, _, _)
DotProduct(a, b, n) == IF n = 0 THEN 0 ELSE a[n] * b[n] + DotProduct(a, b, n - 1)

Swap(s, i, j) == [s EXCEPT ![i] = s[j], ![j] = s[i]]

Reversed(s) == [k \in 1..Len(s) |-> s[Len(s) + 1 - k]]

\* ------------------------------------------------------------------ Manager
\* Manager::Ptr copy and destruction; the buffer goes when the count reaches 0.
ManagerAddRef(m, id) ==
    IF id = Null THEN m ELSE [m EXCEPT !.rc = @ + 1]

ManagerRelease(m, id) ==
    IF id = Null THEN m
    ELSE IF m.rc - 1 = 0
         THEN [m EXCEPT !.rc = 0, !.released = @ + 1]
         ELSE [m EXCEPT !.rc = @ - 1]

\* --------------------------------------------------------------- Core<N>
NoCore == [st |-> "free", size |-> <<>>, stride |-> <<>>, manager |-> Null, rc |-> 0]

\* Core<0>::getSize / getStride return 1; Core<N> returns its own fields.
LevelSize(chain, N)   == IF N = 0 THEN 1 ELSE chain.size[N]
LevelStride(chain, N) == IF N = 0 THEN 1 ELSE chain.stride[N]

\* Core(shape, strides, manager): explicit strides.
RECURSIVE CoreExplicit(_, _, _, _)
CoreExplicit(N, M, shape, strides) ==
    IF N = 0 THEN [size |-> <<>>, stride |-> <<>>]
    ELSE LET super == CoreExplicit(N - 1, M, shape, strides)
         IN  [size   |-> Append(super.size, shape[M - N + 1]),
              stride |-> Append(super.stride, strides[M - N + 1])]

\* a row-major constructor that multiplies by its own size, not the faster one's
RECURSIVE CoreRowMajorOwnSize(_, _, _)
CoreRowMajorOwnSize(N, M, shape) ==
    IF N = 0 THEN [size |-> <<>>, stride |-> <<>>]
    ELSE LET super == CoreRowMajorOwnSize(N - 1, M, shape)
         IN  [size   |-> Append(super.size, shape[M - N + 1]),
              stride |-> Append(super.stride,
                                LevelStride(super, N - 1) * shape[M - N + 1])]

\* Core(shape, manager): row-major strides.
RECURSIVE CoreRowMajor(_, _, _)
CoreRowMajor(N, M, shape) ==
    IF N = 0 THEN [size |-> <<>>, stride |-> <<>>]
    ELSE LET super == CoreRowMajor(N - 1, M, shape)
         IN  [size   |-> Append(super.size, shape[M - N + 1]),
              stride |-> Append(super.stride,
                                LevelStride(super, N - 1) * LevelSize(super, N - 1))]

\* a column-major constructor that hands its own stride on to the base class
RECURSIVE CoreColumnMajorSameStride(_, _, _, _)
CoreColumnMajorSameStride(N, M, shape, stride) ==
    IF N = 0 THEN [size |-> <<>>, stride |-> <<>>]
    ELSE LET super == CoreColumnMajorSameStride(N - 1, M, shape, stride)
         IN  [size   |-> Append(super.size, shape[M - N + 1]),
              stride |-> Append(super.stride, stride)]

\* Core(shape, stride, manager): column-major strides.
RECURSIVE CoreColumnMajor(_, _, _, _)
CoreColumnMajor(N, M, shape, stride) ==
    IF N = 0 THEN [size |-> <<>>, stride |-> <<>>]
    ELSE LET super == CoreColumnMajor(N - 1, M, shape, stride * shape[M - N + 1])
         IN  [size   |-> Append(super.size, shape[M - N + 1]),
              stride |-> Append(super.stride, stride)]

\* Core(manager): zero shape and strides.
CoreZero(N) == [size |-> Zeros(N), stride |-> Zeros(N)]

\* Core(Core const & other) of the Core<N> sub-object: same sizes and strides.
CoreCopied(other, N) ==
    [size |-> SubSeq(other.size, 1, N), stride |-> SubSeq(other.stride, 1, N)]

\* The Core<0> base of every constructor: _manager(manager), _rc(1).
NewCore(h, c, chain, m) ==
    [cores   |-> [h.cores EXCEPT ![c] = [st |-> "live", size |-> chain.size,
                                         stride |-> chain.stride, manager |-> m, rc |-> 1]],
     manager |-> ManagerAddRef(h.manager, m)]

intrusive_ptr_add_ref(h, c) ==
    IF c = Null THEN h ELSE [h EXCEPT !.cores[c].rc = @ + 1]

\* delete core: ~Core() destroys the _manager member.
DeleteCore(h, c) ==
    [cores   |-> [h.cores EXCEPT ![c].st = "deleted"],
     manager |-> ManagerRelease(h.manager, h.cores[c].manager)]

intrusive_ptr_release(h, c) ==
    IF c = Null THEN h
    ELSE LET h1 == [h EXCEPT !.cores[c].rc = @ - 1]
         IN  IF h1.cores[c].rc = 0 THEN DeleteCore(h1, c) ELSE h1

\* boost::intrusive_ptr<Core>(p, add_ref)
IntrusivePtr(h, c, add_ref) == IF add_ref THEN intrusive_ptr_add_ref(h, c) ELSE h

\* create(shape, strides) that leaves the Manager of the new Core empty
createStridesUnmanaged(h, c, shape, strides, m) ==
    IntrusivePtr(NewCore(h, c, CoreExplicit(Len(shape), Len(shape), shape, strides), Null),
                 c, FALSE)

\* Core::create(shape, strides, manager)
createStrides(h, c, shape, strides, m) ==
    IntrusivePtr(NewCore(h, c, CoreExplicit(Len(shape), Len(shape), shape, strides), m), c, FALSE)

createOrder(h, c, shape, order, m) ==
    IF order = "ROW_MAJOR"
    THEN IntrusivePtr(NewCore(h, c, CoreRowMajor(Len(shape), Len(shape), shape), m), c, FALSE)
    ELSE IntrusivePtr(NewCore(h, c, CoreColumnMajor(Len(shape), Len(shape), shape, 1), m), c, FALSE)

createEmpty(h, c, N, m) ==
    IntrusivePtr(NewCore(h, c, CoreZero(N), m), c, FALSE)

\* Ptr copy() const { return Ptr(new Core(*this)); } on the Core<N> sub-object
copy(h, c, src, N) ==
    IntrusivePtr(NewCore(h, c, CoreCopied(h.cores[src], N), h.cores[src].manager), c, TRUE)

\* computeOffset reading index[N-1] where the code reads index[M-N]
RECURSIVE computeOffsetLevelIndex(_, _, _, _)
computeOffsetLevelIndex(core, N, M, index) ==
    IF N = 0 THEN 0
    ELSE index[N] * core.stride[N] + computeOffsetLevelIndex(core, N - 1, M, index)

\* computeOffset on the Core<N> sub-object, index of length M.
RECURSIVE computeOffset(_, _, _, _)
computeOffset(core, N, M, index) ==
    IF N = 0 THEN 0
    ELSE index[M - N + 1] * core.stride[N] + computeOffset(core, N - 1, M, index)

RECURSIVE fillShape(_, _, _, _)
fillShape(core, N, M, shape) ==
    IF N = 0 THEN shape
    ELSE fillShape(core, N - 1, M, [shape EXCEPT ![M - N + 1] = core.size[N]])

RECURSIVE fillStrides(_, _, _, _)
fillStrides(core, N, M, strides) ==
    IF N = 0 THEN strides
    ELSE fillStrides(core, N - 1, M, [strides EXCEPT ![M - N + 1] = core.stride[N]])

\* getNumElements with a rank-0 base that contributes 0
RECURSIVE coreNumElementsZeroBase(_, _)
coreNumElementsZeroBase(core, N) ==
    IF N = 0 THEN 0 ELSE core.size[N] * coreNumElementsZeroBase(core, N - 1)

\* Core<N>::getNumElements(): getSize() * Super::getNumElements(), 1 at rank 0
RECURSIVE coreNumElements(_, _)
coreNumElements(core, N) ==
    IF N = 0 THEN 1 ELSE core.size[N] * coreNumElements(core, N - 1)

\* ------------------------------------------------------------ array views
NoView == [st |-> "free", data |-> Null, core |-> Null, nd |-> 0,
           op |-> "none", parent |-> 0, arg |-> 0, order |-> <<>>]

Live(v) == views[v].st = "live"

\* A view of rank nd holds a Core<nd> pointer into a Core object of rank >= nd.
getData(vw)     == vw.data
isEmpty(vw)     == vw.data = Null
getManager(vw)  == cores[vw.core].manager
getSize(vw, P)   == LevelSize(cores[vw.core], vw.nd - P)

\* the stride read one level too far down the Core
getStrideBelow(vw, P) == LevelStride(cores[vw.core], vw.nd - P - 1)
getStride(vw, P) == LevelStride(cores[vw.core], vw.nd - P)

getShape(vw)    == fillShape(cores[vw.core], vw.nd, vw.nd, Zeros(vw.nd))
getStrides(vw)  == fillStrides(cores[vw.core], vw.nd, vw.nd, Zeros(vw.nd))
getNumElements(vw) == coreNumElements(cores[vw.core], vw.nd)

\* operator[](Index) that forgets every dimension but the first
ElementAddressFirstOnly(vw, i) ==
    vw.data + (IF vw.nd = 0 THEN 0 ELSE i[1] * cores[vw.core].stride[vw.nd])

\* operator[](Index const & i): the address of the element referenced.
ElementAddress(vw, i) == vw.data + computeOffset(cores[vw.core], vw.nd, vw.nd, i)

\* the index vectors of length n with 0 <= i[d] < shape[d] + past in every dimension
RECURSIVE IndexSet(_, _, _)
IndexSet(shape, n, past) ==
    IF n = 0 THEN {<<>>}
    ELSE { Append(i, k) : i \in IndexSet(shape, n - 1, past), k \in 0..(shape[n] - 1 + past) }

\* every in-range index of a view
Indices(vw) == IndexSet(getShape(vw), vw.nd, 0)

FreeViews == { v \in ViewIds : views[v].st = "free" }
FreeCores == { c \in CoreIds : cores[c].st = "free" }
NextView  == CHOOSE v \in FreeViews : \A u \in FreeViews : v <= u
NextCore  == CHOOSE c \in FreeCores : \A u \in FreeCores : c <= u

Heap == [cores |-> cores, manager |-> manager]

\* ArrayBase(Element * data, CorePtr const & core): the view holds one reference.
ArrayBase(data, core, nd, op, parent, arg, order) ==
    [st |-> "live", data |-> data, core |-> core, nd |-> nd,
     op |-> op, parent |-> parent, arg |-> arg, order |-> order]

\* ------------------------------------------------------------------- Init
Ranks      == 1..MaxRank
Shapes(n)  == { s \in [1..n -> 1..MaxSize] : SeqProduct(s, 1, n) <= MaxElems }
Strides(n) == [1..n -> {1, MaxStride}]
Ones(n)    == [k \in 1..n |-> 1]

NoAccess == [view |-> 0, index |-> <<>>, addr |-> Null]

NoVec == [kind |-> "none", op |-> "none", a |-> <<>>, b |-> <<>>, s |-> 0, r |-> <<>>, x |-> <<>>]

\* Nothing has been constructed yet.
Init ==
    /\ cores = [c \in CoreIds |-> NoCore]
    /\ manager = [rc |-> 0, released |-> 0]
    /\ views = [v \in ViewIds |-> NoView]
    /\ made = [order |-> "none", shape |-> <<>>, strides |-> <<>>]
    /\ access = NoAccess
    /\ vec = NoVec

\* ---------------------------------------------------------------- actions
\* The view is constructed over the Core pointer c that a temporary holds:
\* ArrayBase copies the pointer (add_ref), then the temporary is destroyed.
Construct(h, c) == intrusive_ptr_release(intrusive_ptr_add_ref(h, c), c)

\* An array is built over a new buffer: the Manager owning it, a Core made by
\* one of the create() factories, and the view holding the Core pointer.
Create(shape, order, strides) ==
    /\ made.order = "none"
    /\ order # "STRIDES" => strides = Ones(Len(shape))
    /\ LET c == NextCore
           h1 == IF order = "STRIDES"
                 THEN createStrides(Heap, c, shape, strides, TheManager)
                 ELSE createOrder(Heap, c, shape, order, TheManager)
           h2 == Construct(h1, c)
       IN  /\ cores' = h2.cores
           /\ manager' = h2.manager
           /\ views' = [views EXCEPT ![NextView] =
                          ArrayBase(BaseAddr, c, Len(shape), "create", 0, 0, <<>>)]
    /\ made' = [order |-> order, shape |-> shape, strides |-> strides]
    /\ UNCHANGED <<access, vec>>

\* An empty array of rank N: a null data pointer over Core::create(manager)
CreateEmpty(N, m) ==
    /\ made.order = "none"
    /\ LET c == NextCore
           h1 == createEmpty(Heap, c, N, m)
           h2 == Construct(h1, c)
       IN  /\ cores' = h2.cores
           /\ manager' = h2.manager
           /\ views' = [views EXCEPT ![NextView] =
                          ArrayBase(Null, c, N, "create", 0, 0, <<>>)]
    /\ made' = [order |-> "EMPTY", shape |-> Zeros(N), strides |-> Zeros(N)]
    /\ UNCHANGED <<access, vec>>

\* the loop run over all n < N: every pair is swapped twice
RECURSIVE SwapLoopFull(_, _, _)
SwapLoopFull(s, n, N) ==
    IF n < N THEN SwapLoopFull(Swap(s, n + 1, N - n), n + 1, N) ELSE s

\* the loop swapping element n with its neighbour n+1: a rotation
RECURSIVE SwapLoopAdjacent(_, _, _)
SwapLoopAdjacent(s, n, N) ==
    IF n < N - 1 THEN SwapLoopAdjacent(Swap(s, n + 1, n + 2), n + 1, N) ELSE s

\* the loop of transpose(): swap element n with element N-n-1 for n < N/2
RECURSIVE SwapLoop(_, _, _)
SwapLoop(s, n, N) ==
    IF n < N \div 2 THEN SwapLoop(Swap(s, n + 1, N - n), n + 1, N) ELSE s

\* FullTranspose transpose() const
Transpose(v) ==
    /\ Live(v)
    /\ FreeViews # {} /\ FreeCores # {}
    /\ LET vw == views[v]
           N == vw.nd
           shape == SwapLoop(getShape(vw), 0, N)
           strides == SwapLoop(getStrides(vw), 0, N)
           c == NextCore
           h1 == createStrides(Heap, c, shape, strides, getManager(vw))
           h2 == Construct(h1, c)
       IN  /\ cores' = h2.cores
           /\ manager' = h2.manager
           /\ views' = [views EXCEPT ![NextView] =
                          ArrayBase(getData(vw), c, N, "transpose", v, 0, <<>>)]
    /\ UNCHANGED <<made, access, vec>>

\* Traits::makeReference(data, core) for ND > 1: an ArrayRef of rank ND-1
\* that holds the Core pointer it is given
makeReference(h, data, core) ==
    [heap |-> intrusive_ptr_add_ref(h, core), data |-> data, core |-> core]

\* Reference operator[](int n) const, for ND > 1: a sub-array on the same Core;
\* n is not checked against the size of the dimension
SubArray(v, n) ==
    /\ Live(v) /\ views[v].nd > 1
    /\ FreeViews # {}
    /\ LET vw == views[v]
           r == makeReference(Heap, vw.data + n * getStride(vw, 0), vw.core)
       IN  /\ cores' = r.heap.cores
           /\ manager' = r.heap.manager
           /\ views' = [views EXCEPT ![NextView] =
                          ArrayBase(r.data, r.core, vw.nd - 1, "subarray", v, n, <<>>)]
    /\ UNCHANGED <<made, access, vec>>

\* Element & operator[](Index const & i) const
IndexElement(v, i) ==
    /\ Live(v)
    /\ i \in Indices(views[v])
    /\ access' = [view |-> v, index |-> i, addr |-> ElementAddress(views[v], i)]
    /\ UNCHANGED <<cores, manager, views, made, vec>>

\* const_array_cast<T_>(array): the same data pointer and Core
const_array_cast(h, vw) ==
    [heap |-> intrusive_ptr_add_ref(h, vw.core), data |-> getData(vw), core |-> vw.core]

ConstArrayCast(v) ==
    /\ Live(v)
    /\ FreeViews # {}
    /\ LET vw == views[v]
           r == const_array_cast(Heap, vw)
       IN  /\ cores' = r.heap.cores
           /\ manager' = r.heap.manager
           /\ views' = [views EXCEPT ![NextView] =
                          ArrayBase(r.data, r.core, vw.nd, "const_array_cast", v, 0, <<>>)]
    /\ UNCHANGED <<made, access, vec>>

\* the cast that makes the shared Core contiguous in its last dimension with
\* setStride(1) instead of trusting the caller
static_dimension_cast_restrided(h, vw) ==
    [heap |-> [intrusive_ptr_add_ref(h, vw.core) EXCEPT !.cores[vw.core].stride[1] = 1],
     data |-> getData(vw), core |-> vw.core]

\* the cast that does not count the view it returns as a holder of the Core
static_dimension_cast_uncounted(h, vw) ==
    [heap |-> h, data |-> getData(vw), core |-> vw.core]

\* static_dimension_cast<C_>(array): the same data pointer and Core, unchecked
static_dimension_cast(h, vw) ==
    [heap |-> intrusive_ptr_add_ref(h, vw.core), data |-> getData(vw), core |-> vw.core]

StaticDimensionCast(v, C_) ==
    /\ Live(v)
    /\ C_ \in (0 - views[v].nd)..views[v].nd
    /\ FreeViews # {}
    /\ LET vw == views[v]
           r == static_dimension_cast(Heap, vw)
       IN  /\ cores' = r.heap.cores
           /\ manager' = r.heap.manager
           /\ views' = [views EXCEPT ![NextView] =
                          ArrayBase(r.data, r.core, vw.nd, "static_dimension_cast", v, C_, <<>>)]
    /\ UNCHANGED <<made, access, vec>>

\* Array<T,N,C_>(): the empty array, a null data pointer over a zero Core
EmptyArray(h, c, N) ==
    [heap |-> Construct(createEmpty(h, c, N, Null), c), data |-> Null, core |-> c]

\* the two loops of dynamic_dimension_cast: TRUE when no stride test fails
RECURSIVE TrailingLoop(_, _, _, _, _, _)
TrailingLoop(shape, strides, N, C_, i, n) ==
    IF i <= C_
    THEN IF strides[N - i + 1] # n THEN FALSE
         ELSE TrailingLoop(shape, strides, N, C_, i + 1, n * shape[N - i + 1])
    ELSE TRUE

RECURSIVE LeadingLoop(_, _, _, _, _)
LeadingLoop(shape, strides, C_, i, n) ==
    IF i < 0 - C_
    THEN IF strides[i + 1] # n THEN FALSE
         ELSE LeadingLoop(shape, strides, C_, i + 1, n * strides[i + 1])
    ELSE TRUE

dynamic_dimension_cast(h, c, vw, C_) ==
    LET shape == getShape(vw)
        strides == getStrides(vw)
        ok == IF C_ >= 0 THEN TrailingLoop(shape, strides, vw.nd, C_, 1, 1)
              ELSE LeadingLoop(shape, strides, C_, 0, 1)
    IN  IF ok THEN static_dimension_cast(h, vw) ELSE EmptyArray(h, c, vw.nd)

DynamicDimensionCast(v, C_) ==
    /\ Live(v)
    /\ C_ \in (0 - views[v].nd)..views[v].nd
    /\ FreeViews # {} /\ FreeCores # {}
    /\ LET vw == views[v]
           r == dynamic_dimension_cast(Heap, NextCore, vw, C_)
       IN  /\ cores' = r.heap.cores
           /\ manager' = r.heap.manager
           /\ views' = [views EXCEPT ![NextView] =
                          ArrayBase(r.data, r.core, vw.nd, "dynamic_dimension_cast", v, C_, <<>>)]
    /\ UNCHANGED <<made, access, vec>>

\* A view over core->copy(): ArrayBase(data, core->copy())
CopyCore(v) ==
    /\ Live(v)
    /\ FreeViews # {} /\ FreeCores # {}
    /\ LET vw == views[v]
           c == NextCore
           h1 == copy(Heap, c, vw.core, vw.nd)
           h2 == Construct(h1, c)
       IN  /\ cores' = h2.cores
           /\ manager' = h2.manager
           /\ views' = [views EXCEPT ![NextView] =
                          ArrayBase(vw.data, c, vw.nd, "copy", v, 0, <<>>)]
    /\ UNCHANGED <<made, access, vec>>

\* ~ArrayBase(): the view's Core pointer is released.
Destroy(v) ==
    /\ Live(v)
    /\ LET h1 == intrusive_ptr_release(Heap, views[v].core)
       IN  /\ cores' = h1.cores
           /\ manager' = h1.manager
    /\ views' = [views EXCEPT ![v].st = "dead"]
    /\ UNCHANGED <<made, access, vec>>

\* the orders transpose(order) is called with: the permutations of 0..N-1
Orders(N) ==
    { o \in [1..N -> 0..(N - 1)] : \A d \in 0..(N - 1) : \E n \in 1..N : o[n] = d }

\* the loop writing element n of the old vector to the place order[n] names
RECURSIVE OrderLoopScatter(_, _, _, _, _)
OrderLoopScatter(new, old, order, n, N) ==
    IF n < N
    THEN OrderLoopScatter([new EXCEPT ![order[n + 1] + 1] = old[n + 1]], old, order, n + 1, N)
    ELSE new

\* the loop of transpose(order): new[n] = old[order[n]] for n < N
RECURSIVE OrderLoop(_, _, _, _, _)
OrderLoop(new, old, order, n, N) ==
    IF n < N
    THEN OrderLoop([new EXCEPT ![n + 1] = old[order[n + 1] + 1]], old, order, n + 1, N)
    ELSE new

\* Transpose transpose(Index const & order) const
TransposeOrder(v, order) ==
    /\ Live(v)
    /\ order \in Orders(views[v].nd)
    /\ FreeViews # {} /\ FreeCores # {}
    /\ LET vw == views[v]
           N == vw.nd
           newShape == OrderLoop(Zeros(N), getShape(vw), order, 0, N)
           newStrides == OrderLoop(Zeros(N), getStrides(vw), order, 0, N)
           c == NextCore
           h1 == createStrides(Heap, c, newShape, newStrides, getManager(vw))
           h2 == Construct(h1, c)
       IN  /\ cores' = h2.cores
           /\ manager' = h2.manager
           /\ views' = [views EXCEPT ![NextView] =
                          ArrayBase(getData(vw), c, N, "transpose_order", v, 0, order)]
    /\ UNCHANGED <<made, access, vec>>

\* first<M>() that copies the last M elements, as last<M>() does
firstFromEnd(s, M) == [k \in 1..M |-> s[Len(s) - M + k]]

\* Vector<T,N>::first<M>(): the first M elements
first(s, M) == [k \in 1..M |-> s[k]]

\* the loop that leaves the last of the merged sizes out
RECURSIVE FlattenLoopShort(_, _, _, _, _)
FlattenLoopShort(newShape, oldShape, n, N, Nf) ==
    IF n < N - 1
    THEN FlattenLoopShort([newShape EXCEPT ![Nf] = @ * oldShape[n + 1]], oldShape, n + 1, N, Nf)
    ELSE newShape

\* the loop of flatten: newShape[Nf-1] *= oldShape[n] for n from Nf to N-1
RECURSIVE FlattenLoop(_, _, _, _, _)
FlattenLoop(newShape, oldShape, n, N, Nf) ==
    IF n < N
    THEN FlattenLoop([newShape EXCEPT ![Nf] = @ * oldShape[n + 1]], oldShape, n + 1, N, Nf)
    ELSE newShape

\* flatten<Nf>(Array<T,N,C> const & input): compiled only when C+Nf-N >= 1,
\* for C the contiguity parameter of the input's type
Flatten(v, Nf, C_) ==
    /\ Live(v)
    /\ Nf \in 1..views[v].nd
    /\ C_ \in (0 - views[v].nd)..views[v].nd
    /\ C_ + Nf - views[v].nd >= 1
    /\ FreeViews # {} /\ FreeCores # {}
    /\ LET vw == views[v]
           N == vw.nd
           oldShape == getShape(vw)
           newShape == FlattenLoop(first(oldShape, Nf), oldShape, Nf, N, Nf)
           newStrides == [first(getStrides(vw), Nf) EXCEPT ![Nf] = 1]
           c == NextCore
           h1 == createStrides(Heap, c, newShape, newStrides, getManager(vw))
           h2 == Construct(h1, c)
       IN  /\ cores' = h2.cores
           /\ manager' = h2.manager
           /\ views' = [views EXCEPT ![NextView] =
                          ArrayBase(getData(vw), c, Nf, "flatten", v, Nf, <<>>)]
    /\ UNCHANGED <<made, access, vec>>

\* ------------------------------------------------------------ Vector<T,N>
\* the binary operators Vector overloads, and their augmented assignments
BinaryOps == {"+", "-", "*", "/", "%", "&", "^", "|", "<<", ">>"}

Abs(x) == IF x < 0 THEN 0 - x ELSE x

\* x / y of C++ on int: the quotient truncated towards zero
Quotient(x, y) ==
    IF (x < 0) = (y < 0) THEN Abs(x) \div Abs(y) ELSE 0 - (Abs(x) \div Abs(y))

RECURSIVE Pow2(_)
Pow2(n) == IF n = 0 THEN 1 ELSE 2 * Pow2(n - 1)

\* x & y, x ^ y and x | y of C++ on non-negative int, bit by bit
RECURSIVE Bitwise(_, _, _)
Bitwise(op, x, y) ==
    IF x = 0 /\ y = 0
    THEN 0
    ELSE LET p == x % 2
             q == y % 2
             bit == CASE op = "&" -> IF p = 1 /\ q = 1 THEN 1 ELSE 0
                      [] op = "^" -> IF p # q THEN 1 ELSE 0
                      [] op = "|" -> IF p = 1 \/ q = 1 THEN 1 ELSE 0
         IN  bit + 2 * Bitwise(op, x \div 2, y \div 2)

\* x op y of C++ on int, for operands the operator is defined on
ScalarOp(op, x, y) ==
    CASE op = "=" -> y
      [] op = "+" -> x + y
      [] op = "-" -> x - y
      [] op = "*" -> x * y
      [] op = "/" -> Quotient(x, y)
      [] op = "%" -> x - y * Quotient(x, y)
      [] op \in {"&", "^", "|"} -> Bitwise(op, x, y)
      [] op = "<<" -> x * Pow2(y)
      [] op = ">>" -> x \div Pow2(y)

\* the loop that never advances the iterator j over the other vector
RECURSIVE AssignLoopFirstOnly(_, _, _, _, _)
AssignLoopFirstOnly(op, this, other, i, N) ==
    IF i < N
    THEN AssignLoopFirstOnly(op, [this EXCEPT ![i + 1] = ScalarOp(op, @, other[1])],
                             other, i + 1, N)
    ELSE this

\* Vector & operator op= (Vector<U,N> const & other): (*i) op= (*j) over both
RECURSIVE AssignLoop(_, _, _, _, _)
AssignLoop(op, this, other, i, N) ==
    IF i < N
    THEN AssignLoop(op, [this EXCEPT ![i + 1] = ScalarOp(op, @, other[i + 1])],
                    other, i + 1, N)
    ELSE this

\* Vector & operator op= (U scalar): (*i) op= scalar over this
RECURSIVE AssignScalarLoop(_, _, _, _, _)
AssignScalarLoop(op, this, scalar, i, N) ==
    IF i < N
    THEN AssignScalarLoop(op, [this EXCEPT ![i + 1] = ScalarOp(op, @, scalar)],
                          scalar, i + 1, N)
    ELSE this

\* T elems[N] before a constructor has assigned to it; no element is read
Elems(N) == [k \in 1..N |-> 0]

\* explicit Vector(U scalar)
VectorOfScalar(N, scalar) ==
    IF N = 0 THEN <<>> ELSE AssignScalarLoop("=", Elems(N), scalar, 0, N)

\* explicit Vector(Vector<U,N> const & other)
VectorOfVector(other) ==
    IF Len(other) = 0 THEN <<>> ELSE AssignLoop("=", Elems(Len(other)), other, 0, Len(other))

\* operator op (Vector<T,N> const & a, Vector<U,N> const & b)
VectorOpVector(op, a, b) == AssignLoop(op, VectorOfVector(a), b, 0, Len(a))

\* operator op (Vector<T,N> const & a, U b)
VectorOpScalar(op, a, b) == AssignScalarLoop(op, VectorOfVector(a), b, 0, Len(a))

\* the result vector left as it was allocated instead of filled with the scalar
ScalarOpVectorUnfilled(op, a, b) == AssignLoop(op, Elems(Len(b)), b, 0, Len(b))

\* operator op (U a, Vector<T,N> const & b)
ScalarOpVector(op, a, b) == AssignLoop(op, VectorOfScalar(Len(b), a), b, 0, Len(b))

\* ------------------------------------------------------------ complex arrays
\* the real-sized units one complex element takes
RealsPerComplex == 2

\* reinterpret_cast<RealElement*>(p): the same address, counted in real-sized
\* units instead of complex-sized ones
RealPointer(p) == p * RealsPerComplex

\* the element type of a view: arrays are created complex, getReal and getImag
\* give views of real elements, every other view has the type of its input
RECURSIVE IsComplex(_)
IsComplex(v) ==
    CASE views[v].op = "create" -> TRUE
      [] views[v].op \in {"getReal", "getImag"} -> FALSE
      [] OTHER -> IsComplex(views[v].parent)

\* the extractor that keeps the strides of the complex array
ComplexExtractorSameStrides(h, c, vw, offset) ==
    [heap |-> Construct(createStrides(h, c, getShape(vw), getStrides(vw), getManager(vw)), c),
     data |-> RealPointer(getData(vw)) + offset,
     core |-> c]

\* ComplexExtractor<Array_>::apply(array, offset)
ComplexExtractor(h, c, vw, offset) ==
    [heap |-> Construct(createStrides(h, c, getShape(vw),
                                      VectorOpScalar("*", getStrides(vw), 2),
                                      getManager(vw)), c),
     data |-> RealPointer(getData(vw)) + offset,
     core |-> c]

\* getReal(array)
GetReal(v) ==
    /\ Live(v) /\ IsComplex(v)
    /\ FreeViews # {} /\ FreeCores # {}
    /\ LET r == ComplexExtractor(Heap, NextCore, views[v], 0)
       IN  /\ cores' = r.heap.cores
           /\ manager' = r.heap.manager
           /\ views' = [views EXCEPT ![NextView] =
                          ArrayBase(r.data, r.core, views[v].nd, "getReal", v, 0, <<>>)]
    /\ UNCHANGED <<made, access, vec>>

\* getImag(array)
GetImag(v) ==
    /\ Live(v) /\ IsComplex(v)
    /\ FreeViews # {} /\ FreeCores # {}
    /\ LET r == ComplexExtractor(Heap, NextCore, views[v], 1)
       IN  /\ cores' = r.heap.cores
           /\ manager' = r.heap.manager
           /\ views' = [views EXCEPT ![NextView] =
                          ArrayBase(r.data, r.core, views[v].nd, "getImag", v, 1, <<>>)]
    /\ UNCHANGED <<made, access, vec>>

\* T sum() const: r = 0, then r += (*i) over the elements; Vector<T,0> returns 0
RECURSIVE SumLoop(_, _, _, _)
SumLoop(r, this, i, N) ==
    IF i < N THEN SumLoop(ScalarOp("+", r, this[i + 1]), this, i + 1, N) ELSE r

\* the sum that starts from 1 as the product does
sumFromOne(this) == IF Len(this) = 0 THEN 0 ELSE SumLoop(1, this, 0, Len(this))

sum(this) == IF Len(this) = 0 THEN 0 ELSE SumLoop(0, this, 0, Len(this))

\* T product() const: r = 1, then r *= (*i); Vector<T,0> returns 1
RECURSIVE ProductLoop(_, _, _, _)
ProductLoop(r, this, i, N) ==
    IF i < N THEN ProductLoop(ScalarOp("*", r, this[i + 1]), this, i + 1, N) ELSE r

product(this) == IF Len(this) = 0 THEN 1 ELSE ProductLoop(1, this, 0, Len(this))

\* the vectors and scalars the operations are applied to
Values == 0..MaxVal
Vectors(N) == [1..N -> Values]

\* operands op is defined on: no division and no remainder by zero
Defined(op, y) == op \in {"/", "%"} => y # 0

\* r = a op b for two vectors of the same length N >= 1
BinaryVectorVector(op, a, b) ==
    /\ vec = NoVec
    /\ Len(a) = Len(b) /\ Len(a) >= 1
    /\ \A k \in 1..Len(b) : Defined(op, b[k])
    /\ vec' = [kind |-> "vector op vector", op |-> op, a |-> a, b |-> b, s |-> 0,
               r |-> VectorOpVector(op, a, b), x |-> b]
    /\ UNCHANGED <<cores, manager, views, made, access>>

\* r = a op s for a vector and a scalar
BinaryVectorScalar(op, a, s) ==
    /\ vec = NoVec
    /\ Len(a) >= 1
    /\ Defined(op, s)
    /\ vec' = [kind |-> "vector op scalar", op |-> op, a |-> a, b |-> <<>>, s |-> s,
               r |-> VectorOpScalar(op, a, s), x |-> <<s>>]
    /\ UNCHANGED <<cores, manager, views, made, access>>

\* r = s op b for a scalar and a vector
BinaryScalarVector(op, s, b) ==
    /\ vec = NoVec
    /\ Len(b) >= 1
    /\ \A k \in 1..Len(b) : Defined(op, b[k])
    /\ vec' = [kind |-> "scalar op vector", op |-> op, a |-> <<>>, b |-> b, s |-> s,
               r |-> ScalarOpVector(op, s, b), x |-> b]
    /\ UNCHANGED <<cores, manager, views, made, access>>

\* a op= x for a vector x that is another object than a: r is a afterwards;
\* x is read through a const reference
AugmentedVector(op, a, x) ==
    /\ vec = NoVec
    /\ Len(a) = Len(x) /\ Len(a) >= 1
    /\ \A k \in 1..Len(x) : Defined(op, x[k])
    /\ vec' = [kind |-> "vector op= vector", op |-> op, a |-> a, b |-> x, s |-> 0,
               r |-> AssignLoop(op, a, x, 0, Len(a)), x |-> x]
    /\ UNCHANGED <<cores, manager, views, made, access>>

\* a op= x for a scalar x, passed by value
AugmentedScalar(op, a, x) ==
    /\ vec = NoVec
    /\ Len(a) >= 1
    /\ Defined(op, x)
    /\ vec' = [kind |-> "vector op= scalar", op |-> op, a |-> a, b |-> <<>>, s |-> x,
               r |-> AssignScalarLoop(op, a, x, 0, Len(a)), x |-> <<x>>]
    /\ UNCHANGED <<cores, manager, views, made, access>>

\* Vector<T,N>(other).sum() and Vector<T,N>(scalar).sum(): a is the vector
\* constructed, b and s are the arguments of the constructor
Sum(N, other, scalar, fill) ==
    /\ vec = NoVec
    /\ Len(other) = (IF fill THEN 0 ELSE N)
    /\ LET this == IF fill THEN VectorOfScalar(N, scalar) ELSE VectorOfVector(other)
       IN  vec' = [kind |-> "sum", op |-> IF fill THEN "Vector(scalar)" ELSE "Vector(other)",
                   a |-> this, b |-> other, s |-> scalar, r |-> <<sum(this)>>, x |-> <<>>]
    /\ UNCHANGED <<cores, manager, views, made, access>>

\* Vector<T,N>(other).product() and Vector<T,N>(scalar).product()
Product(N, other, scalar, fill) ==
    /\ vec = NoVec
    /\ Len(other) = (IF fill THEN 0 ELSE N)
    /\ LET this == IF fill THEN VectorOfScalar(N, scalar) ELSE VectorOfVector(other)
       IN  vec' = [kind |-> "product", op |-> IF fill THEN "Vector(scalar)" ELSE "Vector(other)",
                   a |-> this, b |-> other, s |-> scalar, r |-> <<product(this)>>, x |-> <<>>]
    /\ UNCHANGED <<cores, manager, views, made, access>>

\* Manager::getRC() and Manager::isUnique(): unique when its count is exactly 1
ManagerGetRC(m) == m.rc
ManagerIsUnique(m) == m.rc = 1

\* isUnique() that looks at the reference count of the Core alone
isUniqueCoreOnly(h, c) == h.cores[c].rc = 1

\* Core<0>::isUnique(): (_rc == 1) && (_manager->getRC() == 1) && _manager->isUnique()
isUnique(h, c) ==
    (h.cores[c].rc = 1) /\ (ManagerGetRC(h.manager) = 1) /\ ManagerIsUnique(h.manager)

\* void operator=(ArrayBase const & other): _data = other._data; _core = other._core;
\* the intrusive_ptr assignment takes the new reference before it drops the old
Assign(v, other) ==
    /\ Live(v) /\ Live(other)
    /\ views[v].nd = views[other].nd
    /\ LET h1 == intrusive_ptr_add_ref(Heap, views[other].core)
           h2 == intrusive_ptr_release(h1, views[v].core)
       IN  /\ cores' = h2.cores
           /\ manager' = h2.manager
    /\ views' = [views EXCEPT ![v] =
                    ArrayBase(views[other].data, views[other].core, views[v].nd,
                              "assign", 0, 0, <<>>)]
    /\ UNCHANGED <<made, access, vec>>

CreateAny ==
    \E n \in Ranks : \E shape \in Shapes(n) : \E strides \in Strides(n) :
    \E order \in {"ROW_MAJOR", "COLUMN_MAJOR", "STRIDES"} : Create(shape, order, strides)

\* an array allocated in row-major or in column-major order
CreatePacked ==
    \E n \in Ranks : \E shape \in Shapes(n) :
    \E order \in {"ROW_MAJOR", "COLUMN_MAJOR"} : Create(shape, order, Ones(n))

\* a row-major array of size 2 in each of its n dimensions
CreateSquare ==
    \E n \in 1..2 : Create([k \in 1..n |-> 2], "ROW_MAJOR", Ones(n))

UsedViews == Cardinality(ViewIds \ FreeViews)

\* the arguments operator[](int) is called with: in range, or one past the end
SubIndexes(v) == IF Live(v) THEN 0..getSize(views[v], 0) ELSE {}

\* ---------------------------------------------------------- specifications
\* Creation, transposition and sub-arrays.
Next ==
    \/ CreateAny
    \/ \E n \in Ranks : \E m \in {Null, TheManager} : CreateEmpty(n, m)
    \/ \E v \in ViewIds : Transpose(v)
    \/ \E v \in ViewIds : \E n \in SubIndexes(v) : SubArray(v, n)

Spec == Init /\ [][Next]_vars

\* Element access on arrays and their sub-arrays.
NextIndex ==
    \/ CreateAny
    \/ UsedViews < IndexViews /\ \E v \in ViewIds : \E n \in SubIndexes(v) : SubArray(v, n)
    \/ \E v \in ViewIds : Live(v) /\ \E i \in Indices(views[v]) : IndexElement(v, i)

SpecIndex == Init /\ [][NextIndex]_vars

\* The dimension casts.
NextCast ==
    \/ CreateAny
    \/ UsedViews < CastViews /\ \E v \in ViewIds : ConstArrayCast(v)
    \/ UsedViews < CastViews /\ \E v \in ViewIds : \E C_ \in (0 - MaxRank)..MaxRank :
          StaticDimensionCast(v, C_)
    \/ UsedViews < CastViews /\ \E v \in ViewIds : \E C_ \in (0 - MaxRank)..MaxRank :
          DynamicDimensionCast(v, C_)

SpecCast == Init /\ [][NextCast]_vars

\* Ownership: views and Cores come and go over one Manager.
NextOwn ==
    \/ CreateSquare
    \/ \E v \in ViewIds : Transpose(v)
    \/ \E v \in ViewIds : \E n \in 0..1 : SubArray(v, n)
    \/ \E v \in ViewIds : StaticDimensionCast(v, 0)
    \/ \E v \in ViewIds : CopyCore(v)
    \/ \E v \in ViewIds : Destroy(v)

SpecOwn == Init /\ [][NextOwn]_vars

\* Ownership with rebinding: views are assigned to as well.
NextAssign ==
    \/ CreateSquare
    \/ \E v \in ViewIds : \E n \in 0..1 : SubArray(v, n)
    \/ \E v \in ViewIds : CopyCore(v)
    \/ \E v \in ViewIds : \E other \in ViewIds : Assign(v, other)
    \/ \E v \in ViewIds : Destroy(v)

SpecAssign == Init /\ [][NextAssign]_vars

\* The transposes by an explicit order.
NextPerm ==
    \/ CreatePacked
    \/ UsedViews < PermViews /\ \E v \in ViewIds : \E order \in Orders(views[v].nd) :
          TransposeOrder(v, order)

SpecPerm == Init /\ [][NextPerm]_vars

\* The merging of trailing dimensions.
NextFlat ==
    \/ CreateAny
    \/ UsedViews < CastViews /\ \E v \in ViewIds : \E Nf \in 1..MaxRank :
          \E C_ \in 1..MaxRank : Flatten(v, Nf, C_)

SpecFlat == Init /\ [][NextFlat]_vars

\* The real and imaginary parts of arrays of complex elements, and of their
\* transposes.
NextComplex ==
    \/ CreateAny
    \/ UsedViews < CastViews /\ \E v \in ViewIds : Transpose(v)
    \/ UsedViews < CastViews /\ \E v \in ViewIds : GetReal(v)
    \/ UsedViews < CastViews /\ \E v \in ViewIds : GetImag(v)

SpecComplex == Init /\ [][NextComplex]_vars

\* Chains of view transformations from one small array of complex elements.
NextChain ==
    \/ CreateSquare
    \/ \E v \in ViewIds : Transpose(v)
    \/ \E v \in ViewIds : \E order \in Orders(views[v].nd) : TransposeOrder(v, order)
    \/ \E v \in ViewIds : \E n \in SubIndexes(v) : SubArray(v, n)
    \/ \E v \in ViewIds : ConstArrayCast(v)
    \/ \E v \in ViewIds : \E C_ \in (0 - MaxRank)..MaxRank : StaticDimensionCast(v, C_)
    \/ \E v \in ViewIds : \E C_ \in (0 - MaxRank)..MaxRank : DynamicDimensionCast(v, C_)
    \/ \E v \in ViewIds : GetReal(v)
    \/ \E v \in ViewIds : GetImag(v)
    \/ \E v \in ViewIds : \E Nf \in 1..MaxRank : \E C_ \in 1..MaxRank : Flatten(v, Nf, C_)

SpecChain == Init /\ [][NextChain]_vars

\* The arithmetic of Vector<int,N>.
NextVector ==
    \/ vec = NoVec /\ \E op \in BinaryOps : \E N \in 1..MaxLen :
          \E a \in Vectors(N) : \E b \in Vectors(N) : BinaryVectorVector(op, a, b)
    \/ vec = NoVec /\ \E op \in BinaryOps : \E N \in 1..MaxLen :
          \E a \in Vectors(N) : \E s \in Values : BinaryVectorScalar(op, a, s)
    \/ vec = NoVec /\ \E op \in BinaryOps : \E N \in 1..MaxLen :
          \E s \in Values : \E b \in Vectors(N) : BinaryScalarVector(op, s, b)
    \/ vec = NoVec /\ \E op \in BinaryOps : \E N \in 1..MaxLen :
          \E a \in Vectors(N) : \E x \in Vectors(N) : AugmentedVector(op, a, x)
    \/ vec = NoVec /\ \E op \in BinaryOps : \E N \in 1..MaxLen :
          \E a \in Vectors(N) : \E x \in Values : AugmentedScalar(op, a, x)
    \/ vec = NoVec /\ \E N \in 0..MaxLen :
          \/ \E other \in Vectors(N) : Sum(N, other, 0, FALSE)
          \/ \E scalar \in Values : Sum(N, <<>>, scalar, TRUE)
    \/ vec = NoVec /\ \E N \in 0..MaxLen :
          \/ \E other \in Vectors(N) : Product(N, other, 0, FALSE)
          \/ \E scalar \in Values : Product(N, <<>>, scalar, TRUE)

SpecVector == Init /\ [][NextVector]_vars

\* ------------------------------------------------------------ properties
\* the views made from view p by operation op
Made(op) == { w \in ViewIds : Live(w) /\ views[w].op = op /\ views[w].parent # 0
                              /\ Live(views[w].parent) }

\* the index vectors of a view, in range or one past the end in some dimensions
IndexVectors(vw) == IndexSet(getShape(vw), vw.nd, 1)

\* C1: computeOffset(index) is the sum over the dimensions d of
\* index[d] * stride[d], for the strides the Core reports and for the strides
\* it was created from, and operator[](Index) references the element at the
\* data pointer plus that offset.
C1_OffsetIsStrideSum ==
    /\ \A v \in ViewIds : Live(v) =>
          LET strides == getStrides(views[v])
          IN  \A i \in IndexVectors(views[v]) :
                 computeOffset(cores[views[v].core], views[v].nd, views[v].nd, i)
                    = DotProduct(i, strides, views[v].nd)
    /\ made.order = "STRIDES" =>
          \A i \in IndexVectors(views[1]) :
             computeOffset(cores[views[1].core], views[1].nd, views[1].nd, i)
                = DotProduct(i, made.strides, Len(made.strides))
    /\ access.view # 0 =>
          access.addr = views[access.view].data
                + DotProduct(access.index, getStrides(views[access.view]), Len(access.index))

\* element (1,1) of a sub-array of an array with explicit strides was accessed
C1_Witness ==
    /\ access.view # 0 /\ views[access.view].op = "subarray"
    /\ made.order = "STRIDES" /\ made.strides = <<1, 2, 2>>
    /\ access.index = <<1, 1>>
    /\ access.addr = views[access.view].data + 4

\* the claim's contiguity in the dimensions C_ asks for
ContiguousIn(shape, strides, C_) ==
    LET N == Len(shape)
    IN  IF C_ >= 0
        THEN \A i \in 1..C_ : strides[N - i + 1] = SeqProduct(shape, N - i + 2, N)
        ELSE \A i \in 1..(0 - C_) : strides[i] = SeqProduct(shape, 1, i - 1)

SameGeometry(vw, pw) ==
    /\ getShape(vw) = getShape(pw)
    /\ getStrides(vw) = getStrides(pw)
    /\ getData(vw) = getData(pw)

\* C2: dynamic_dimension_cast<C_> of an array that is contiguous in the
\* dimensions C_ asks for returns a non-empty view with the shape, the strides
\* and the data pointer of the input.
C2_DynamicCastOfContiguous ==
    \A w \in Made("dynamic_dimension_cast") :
       LET pw == views[views[w].parent]
       IN  (~isEmpty(pw) /\ ContiguousIn(getShape(pw), getStrides(pw), views[w].arg))
              => (~isEmpty(views[w]) /\ SameGeometry(views[w], pw))

\* C3: dynamic_dimension_cast<C_> of an array that is not contiguous in the
\* dimensions C_ asks for returns an empty view (null data pointer).
C3_DynamicCastOfNonContiguous ==
    \A w \in Made("dynamic_dimension_cast") :
       LET pw == views[views[w].parent]
       IN  ~ContiguousIn(getShape(pw), getStrides(pw), views[w].arg)
              => isEmpty(views[w])

\* C4: copy() returns a new Core, distinct from the original, with the same
\* sizes, strides and Manager, whose reference count is 1 while the returned
\* pointer (here the view built on it) is its only holder; the reference
\* count of the original is unchanged.
C4_CopyIsFreshCore ==
    [][\A v \in ViewIds : \A w \in ViewIds :
          (CopyCore(v) /\ w = NextView) =>
             /\ views'[w].core # views[v].core
             /\ cores'[views'[w].core].st = "live"
             /\ getShape(views[w])' = getShape(views[v])
             /\ getStrides(views[w])' = getStrides(views[v])
             /\ getManager(views[w])' = getManager(views[v])
             /\ cores'[views'[w].core].rc = 1
             /\ cores'[views[v].core].rc = cores[views[v].core].rc]_vars

\* C5: while some view sharing the Manager is left the Manager is alive and
\* its buffer has not been released; once all of them are destroyed the buffer
\* has been released exactly once.
C5_BufferReleasedOnce ==
    made.order # "none" =>
       IF \E v \in ViewIds : Live(v) /\ getManager(views[v]) = TheManager
       THEN manager.rc > 0 /\ manager.released = 0
       ELSE manager.released = 1

\* C6: create(shape, ROW_MAJOR, manager) gives the sizes of shape, stride 1 in
\* the last dimension and the product of shape[d+1..N-1] in dimension d.
C6_RowMajorStrides ==
    (made.order = "ROW_MAJOR" /\ Live(1)) =>
       /\ getShape(views[1]) = made.shape
       /\ \A d \in 1..Len(made.shape) :
             getStrides(views[1])[d] = SeqProduct(made.shape, d + 1, Len(made.shape))

C6_Witness ==
    /\ made.order = "ROW_MAJOR" /\ made.shape = <<2, 3>>
    /\ getShape(views[1]) = <<2, 3>> /\ getStrides(views[1]) = <<3, 1>>

\* C7: create(shape, COLUMN_MAJOR, manager) gives the sizes of shape, stride 1
\* in the first dimension and the product of shape[0..d-1] in dimension d.
C7_ColumnMajorStrides ==
    (made.order = "COLUMN_MAJOR" /\ Live(1)) =>
       /\ getShape(views[1]) = made.shape
       /\ \A d \in 1..Len(made.shape) :
             getStrides(views[1])[d] = SeqProduct(made.shape, 1, d - 1)

C7_Witness ==
    /\ made.order = "COLUMN_MAJOR" /\ made.shape = <<2, 3, 1>>
    /\ getShape(views[1]) = <<2, 3, 1>> /\ getStrides(views[1]) = <<1, 2, 6>>

\* C8: transpose() returns a view with the data pointer and the Manager of
\* the input, over a new Core, whose shape and strides are those of the input
\* reversed: result[d] = input[N-1-d] in every dimension d.
C8_TransposeReverses ==
    \A w \in Made("transpose") :
       LET pw == views[views[w].parent]
           N == pw.nd
       IN  /\ getData(views[w]) = getData(pw)
           /\ getManager(views[w]) = getManager(pw)
           /\ views[w].core # pw.core
           /\ views[w].nd = N
           /\ \A d \in 1..N :
                 /\ getShape(views[w])[d] = getShape(pw)[N + 1 - d]
                 /\ getStrides(views[w])[d] = getStrides(pw)[N + 1 - d]

C8_Witness ==
    \E w \in Made("transpose") :
       /\ getShape(views[views[w].parent]) = <<1, 2, 3>>
       /\ getStrides(views[views[w].parent]) = <<6, 3, 1>>
       /\ getShape(views[w]) = <<3, 2, 1>>
       /\ getStrides(views[w]) = <<1, 3, 6>>

\* C9: transpose() applied twice gives back the shape, the strides and the
\* data pointer of the original view.
C9_TransposeTwice ==
    \A w \in Made("transpose") :
       views[w].parent \in Made("transpose") =>
          SameGeometry(views[w], views[views[views[w].parent].parent])

C9_Witness ==
    \E w \in Made("transpose") :
       /\ views[w].parent \in Made("transpose")
       /\ getShape(views[w]) = <<1, 2, 3>>
       /\ getStrides(views[w]) = <<6, 3, 1>>
       /\ getShape(views[views[w].parent]) = <<3, 2, 1>>

\* C10: a[i] and a.transpose()[reverse(i)] are the same element, for every
\* in-range index i.
C10_TransposedElement ==
    \A w \in Made("transpose") :
       LET pw == views[views[w].parent]
       IN  \A i \in Indices(pw) :
              ElementAddress(pw, i) = ElementAddress(views[w], Reversed(i))

C10_Witness ==
    \E w \in Made("transpose") :
       /\ made.order = "ROW_MAJOR" /\ views[w].parent = 1
       /\ getShape(views[1]) = <<2, 3>>
       /\ ElementAddress(views[1], <<1, 2>>) = BaseAddr + 5
       /\ ElementAddress(views[w], <<2, 1>>) = BaseAddr + 5

\* C11: when the input of transpose() is row-major contiguous in its trailing
\* C dimensions, for any C from 0 to N, the returned view is contiguous in its
\* leading C dimensions, which is what its contiguity parameter -C promises.
C11_TransposeContiguity ==
    \A w \in Made("transpose") :
       LET pw == views[views[w].parent]
       IN  \A C_ \in 0..pw.nd :
              ContiguousIn(getShape(pw), getStrides(pw), C_)
                 => ContiguousIn(getShape(views[w]), getStrides(views[w]), 0 - C_)

C11_Witness ==
    \E w \in Made("transpose") :
       LET pw == views[views[w].parent]
       IN  /\ getShape(pw) = <<2, 3>> /\ getStrides(pw) = <<3, 1>>
           /\ ContiguousIn(getShape(pw), getStrides(pw), 2)
           /\ getShape(views[w]) = <<3, 2>> /\ getStrides(views[w]) = <<1, 3>>

\* the index of the input that index i of transpose(order) stands for:
\* j[order[n]] = i[n]
Unpermuted(i, order) ==
    [d \in 1..Len(i) |-> i[CHOOSE n \in 1..Len(i) : order[n] + 1 = d]]

\* C12: transpose(order), for order a permutation of 0..N-1, returns a view
\* with the data pointer and the Manager of the input whose size and stride in
\* dimension n are the input's in dimension order[n]; the number of elements
\* is the input's, and the element at index i of the result is the element of
\* the input at the index j with j[order[n]] = i[n].
C12_TransposeOrder ==
    \A w \in Made("transpose_order") :
       LET vw == views[w]
           pw == views[vw.parent]
           N == pw.nd
           order == vw.order
       IN  /\ getData(vw) = getData(pw)
           /\ getManager(vw) = getManager(pw)
           /\ vw.nd = N
           /\ \A n \in 1..N :
                 /\ getShape(vw)[n] = getShape(pw)[order[n] + 1]
                 /\ getStrides(vw)[n] = getStrides(pw)[order[n] + 1]
           /\ getNumElements(vw) = getNumElements(pw)
           /\ \A i \in Indices(vw) :
                 ElementAddress(vw, i) = ElementAddress(pw, Unpermuted(i, order))

C12_Witness ==
    \E w \in Made("transpose_order") :
       LET vw == views[w]
           pw == views[vw.parent]
       IN  /\ getShape(pw) = <<1, 2, 3>> /\ getStrides(pw) = <<6, 3, 1>>
           /\ vw.order = <<1, 2, 0>>
           /\ getShape(vw) = <<2, 3, 1>> /\ getStrides(vw) = <<3, 1, 6>>
           /\ ElementAddress(vw, <<1, 2, 0>>) = ElementAddress(pw, <<0, 1, 2>>)

\* C13: flatten<Nf> of a rank-N array whose trailing N-Nf+1 dimensions are
\* row-major contiguous returns a view of rank Nf with the data pointer and
\* the Manager of the input; its first Nf-1 sizes and strides are the input's,
\* its last size is the product of the input's sizes in dimensions Nf-1 to
\* N-1, its last stride is 1, and it has as many elements as the input.
C13_Flatten ==
    \A w \in Made("flatten") :
       LET vw == views[w]
           pw == views[vw.parent]
           N == pw.nd
           Nf == vw.arg
       IN  ContiguousIn(getShape(pw), getStrides(pw), N - Nf + 1) =>
              /\ vw.nd = Nf
              /\ getData(vw) = getData(pw)
              /\ getManager(vw) = getManager(pw)
              /\ \A d \in 1..(Nf - 1) :
                    /\ getShape(vw)[d] = getShape(pw)[d]
                    /\ getStrides(vw)[d] = getStrides(pw)[d]
              /\ getShape(vw)[Nf] = SeqProduct(getShape(pw), Nf, N)
              /\ getStrides(vw)[Nf] = 1
              /\ getNumElements(vw) = getNumElements(pw)

C13_Witness ==
    \E w \in Made("flatten") :
       LET vw == views[w]
           pw == views[vw.parent]
       IN  /\ getShape(pw) = <<1, 2, 3>> /\ getStrides(pw) = <<6, 3, 1>>
           /\ ContiguousIn(getShape(pw), getStrides(pw), 2)
           /\ vw.arg = 2
           /\ getShape(vw) = <<1, 6>> /\ getStrides(vw) = <<6, 1>>

\* C14: getReal and getImag of an array of complex elements return a view with
\* the shape and the Manager of the input, every stride twice the input's, and
\* the input's data pointer advanced by 0 and by 1 real-sized units; counted
\* in real-sized units from the input's data pointer, element i of getReal is
\* at twice the offset of element i of the input and element i of getImag one
\* unit after that.
C14_RealAndImag ==
    \A w \in Made("getReal") \cup Made("getImag") :
       LET vw == views[w]
           pw == views[vw.parent]
           part == IF vw.op = "getReal" THEN 0 ELSE 1
           origin == RealPointer(getData(pw))
       IN  /\ vw.nd = pw.nd
           /\ getShape(vw) = getShape(pw)
           /\ getManager(vw) = getManager(pw)
           /\ \A d \in 1..pw.nd : getStrides(vw)[d] = 2 * getStrides(pw)[d]
           /\ getData(vw) = origin + part
           /\ \A i \in Indices(pw) :
                 ElementAddress(vw, i) - origin
                    = 2 * (ElementAddress(pw, i) - getData(pw)) + part

C14_Witness ==
    \E w \in Made("getImag") :
       /\ getShape(views[views[w].parent]) = <<3>>
       /\ getStrides(views[views[w].parent]) = <<1>>
       /\ getShape(views[w]) = <<3>> /\ getStrides(views[w]) = <<2>>
       /\ getData(views[w]) = 2 * BaseAddr + 1
       /\ ElementAddress(views[w], <<2>>) = 2 * BaseAddr + 5

\* C15: operator[](n) on a view of rank N > 1 returns a view of rank N-1 on
\* the very same Core object: no Core is created, no size or stride changes,
\* the Manager is the input's, and the data pointer is the input's advanced by
\* n times the stride of dimension 0, whether or not n is within the size of
\* that dimension.
C15_SubArraySharesCore ==
    [][\A v \in ViewIds : \A w \in ViewIds :
          (/\ ~Live(w) /\ views'[w].st = "live"
           /\ views'[w].op = "subarray" /\ views'[w].parent = v) =>
             /\ views'[w].nd = views[v].nd - 1
             /\ views'[w].core = views[v].core
             /\ cores' = [cores EXCEPT ![views[v].core].rc = @ + 1]
             /\ manager' = manager
             /\ getManager(views[w])' = getManager(views[v])
             /\ getShape(views[w])' = Tail(getShape(views[v]))
             /\ getStrides(views[w])' = Tail(getStrides(views[v]))
             /\ views'[w].data = views[v].data + views'[w].arg * getStrides(views[v])[1]]_vars

C15_Witness ==
    \E w \in Made("subarray") :
       LET pw == views[views[w].parent]
       IN  /\ getShape(pw) = <<2, 3>> /\ getStrides(pw) = <<3, 1>>
           /\ views[w].arg = 2
           /\ views[w].core = pw.core
           /\ getData(views[w]) = getData(pw) + 6
           /\ getShape(views[w]) = <<3>>

\* C17: const_array_cast and static_dimension_cast return a view with the
\* data pointer of the input on the identical Core object, whatever the
\* geometry of the input and whatever contiguity is asked for; nothing else
\* changes but the reference count of that Core, which grows by one for the
\* new holder.
C17_CastsShareCore ==
    [][\A v \in ViewIds : \A w \in ViewIds :
          (/\ ~Live(w) /\ views'[w].st = "live"
           /\ views'[w].op \in {"const_array_cast", "static_dimension_cast"}
           /\ views'[w].parent = v) =>
             /\ views'[w].data = views[v].data
             /\ views'[w].core = views[v].core
             /\ views'[w].nd = views[v].nd
             /\ cores' = [cores EXCEPT ![views[v].core].rc = @ + 1]
             /\ manager' = manager
             /\ \A u \in ViewIds \ {w} : views'[u] = views[u]]_vars

C17_Witness ==
    \E w \in Made("static_dimension_cast") :
       LET pw == views[views[w].parent]
       IN  /\ getShape(pw) = <<2, 2>> /\ getStrides(pw) = <<1, 1>>
           /\ views[w].arg = 2
           /\ ~ContiguousIn(getShape(pw), getStrides(pw), 2)
           /\ views[w].core = pw.core /\ views[w].data = pw.data
           /\ cores[pw.core].rc = 2

\* a dynamic_dimension_cast that failed: it returned an empty array of its own
FailedCast(w) ==
    /\ views[w].op = "dynamic_dimension_cast"
    /\ views[w].core # views[views[w].parent].core

\* the view a chain of transformations started from
RECURSIVE Origin(_)
Origin(w) ==
    IF views[w].op = "create" \/ views[w].parent = 0 \/ FailedCast(w)
    THEN w
    ELSE Origin(views[w].parent)

\* C16: every view reached from a view v by transpose(), transpose(order),
\* operator[](n), const_array_cast, static_dimension_cast, a successful
\* dynamic_dimension_cast, getReal, getImag and flatten, in any sequence, has
\* the Manager of v.
C16_ManagerShared ==
    \A w \in ViewIds : Live(w) =>
       getManager(views[w]) = getManager(views[Origin(w)])

C16_Witness ==
    \E w \in Made("flatten") :
       /\ views[w].parent \in Made("getImag")
       /\ Origin(w) # w /\ views[Origin(w)].op = "create"
       /\ views[w].core # views[Origin(w)].core
       /\ getManager(views[w]) = TheManager

\* C20: getNumElements() is the product of the sizes of all the dimensions,
\* the rank-0 base of the Core contributing 1; a Core built by create(manager)
\* without a shape has size 0 and stride 0 in every dimension and, its rank
\* being at least 1, 0 elements.
C20_NumElements ==
    \A v \in ViewIds : Live(v) =>
       LET vw == views[v]
       IN  /\ getNumElements(vw) = SeqProduct(getShape(vw), 1, vw.nd)
           /\ coreNumElements(cores[vw.core], 0) = 1
           /\ (made.order = "EMPTY" /\ vw.op = "create") =>
                 /\ \A d \in 1..vw.nd : getShape(vw)[d] = 0 /\ getStrides(vw)[d] = 0
                 /\ getNumElements(vw) = 0

C20_Witness ==
    /\ made.order = "EMPTY"
    /\ \E v \in ViewIds :
          /\ Live(v) /\ views[v].op = "create" /\ views[v].nd = 2
          /\ getShape(views[v]) = <<0, 0>> /\ getNumElements(views[v]) = 0
    /\ \E w \in Made("subarray") : getNumElements(views[w]) = 0

\* C18: for every operator op among + - * / % & ^ | << >> and vectors a and b
\* of one length, element i of a op b is a[i] op b[i], element i of a op s is
\* a[i] op s and element i of s op a is s op a[i], the scalar staying the left
\* operand; a op= x gives every element of a the value a[i] op x[i], or
\* a[i] op x for a scalar x, and leaves x as it was.
C18_ElementWise ==
    LET N == Len(vec.r)
    IN  /\ vec.kind = "vector op vector" =>
              /\ N = Len(vec.a)
              /\ \A i \in 1..N : vec.r[i] = ScalarOp(vec.op, vec.a[i], vec.b[i])
        /\ vec.kind = "vector op scalar" =>
              /\ N = Len(vec.a)
              /\ \A i \in 1..N : vec.r[i] = ScalarOp(vec.op, vec.a[i], vec.s)
        /\ vec.kind = "scalar op vector" =>
              /\ N = Len(vec.b)
              /\ \A i \in 1..N : vec.r[i] = ScalarOp(vec.op, vec.s, vec.b[i])
        /\ vec.kind = "vector op= vector" =>
              /\ N = Len(vec.a)
              /\ \A i \in 1..N : vec.r[i] = ScalarOp(vec.op, vec.a[i], vec.b[i])
              /\ vec.x = vec.b
        /\ vec.kind = "vector op= scalar" =>
              /\ N = Len(vec.a)
              /\ \A i \in 1..N : vec.r[i] = ScalarOp(vec.op, vec.a[i], vec.s)
              /\ vec.x = <<vec.s>>

C18_Witness ==
    /\ vec.kind = "scalar op vector" /\ vec.op = "-"
    /\ vec.s = 2 /\ vec.b = <<1, 2>>
    /\ vec.r = <<1, 0>>

\* the sum of the elements of s, from the last one down
RECURSIVE SeqSum(_)
SeqSum(s) == IF Len(s) = 0 THEN 0 ELSE s[Len(s)] + SeqSum(SubSeq(s, 1, Len(s) - 1))

\* C19: sum() is the sum of the N elements of the vector and product() is
\* their product; for a vector of length zero sum() is 0 and product() is 1,
\* whatever the constructor was given.
C19_SumAndProduct ==
    /\ vec.kind = "sum" =>
          /\ vec.r = <<SeqSum(vec.a)>>
          /\ Len(vec.a) = 0 => vec.r = <<0>>
    /\ vec.kind = "product" =>
          /\ vec.r = <<SeqProduct(vec.a, 1, Len(vec.a))>>
          /\ Len(vec.a) = 0 => vec.r = <<1>>

C19_Witness ==
    /\ vec.kind = "product" /\ vec.op = "Vector(other)"
    /\ vec.b = <<2, 2>> /\ vec.a = <<2, 2>> /\ vec.r = <<4>>

\* C21: isUnique() of a Core with a Manager is true exactly when the reference
\* count of the Core is 1, the reference count of the Manager is 1 and the
\* Manager says it is unique; it is false when a second view holds the Core
\* and when a second Core holds the Manager.
C21_IsUnique ==
    \A v \in ViewIds : (Live(v) /\ getManager(views[v]) # Null) =>
       LET c == views[v].core
       IN  /\ isUnique(Heap, c)
                <=> (cores[c].rc = 1 /\ manager.rc = 1 /\ ManagerIsUnique(manager))
           /\ (\E u \in ViewIds \ {v} : Live(u) /\ views[u].core = c) => ~isUnique(Heap, c)
           /\ (\E d \in CoreIds \ {c} : cores[d].st = "live"
                                        /\ cores[d].manager = cores[c].manager)
                 => ~isUnique(Heap, c)

C21_Witness ==
    /\ \E v \in ViewIds : \E w \in Made("transpose") :
          /\ views[w].parent = v /\ views[w].core # views[v].core
          /\ cores[views[v].core].rc = 1 /\ cores[views[w].core].rc = 1
          /\ manager.rc = 2
          /\ ~isUnique(Heap, views[v].core) /\ ~isUnique(Heap, views[w].core)

\* the number of live views that hold Core c
Holders(c) == Cardinality({ v \in ViewIds : Live(v) /\ views[v].core = c })

\* C22: after any sequence of creations, copies, sub-indexings, rebinding
\* assignments and destructions of views, the reference count of every live
\* Core is the number of live views that hold it, and a Core that was
\* allocated is deleted exactly when no live view holds it.
C22_CountIsHolders ==
    \A c \in CoreIds :
       /\ cores[c].st = "live" => cores[c].rc = Holders(c)
       /\ cores[c].st = "deleted" <=> (cores[c].st # "free" /\ Holders(c) = 0)

\* C23: operator[], transpose(), transpose(order), const_array_cast,
\* static_dimension_cast, dynamic_dimension_cast, getReal, getImag and flatten
\* leave every view that exists, their input among them, with its data
\* pointer, shape and strides, and leave every size and stride of every Core
\* that exists as it was.
C23_ViewOpsChangeNothing ==
    [][/\ \A u \in ViewIds : Live(u) =>
             /\ views'[u] = views[u]
             /\ getData(views[u])' = getData(views[u])
             /\ getShape(views[u])' = getShape(views[u])
             /\ getStrides(views[u])' = getStrides(views[u])
       /\ \A c \in CoreIds : cores[c].st = "live" =>
             /\ cores'[c].st = "live"
             /\ cores'[c].size = cores[c].size
             /\ cores'[c].stride = cores[c].stride]_vars

C23_Witness ==
    \E w \in Made("static_dimension_cast") :
       LET pw == views[views[w].parent]
       IN  /\ pw.op = "create" /\ views[w].core = pw.core
           /\ cores[pw.core].rc = 2
           /\ getData(pw) = BaseAddr
           /\ getShape(pw) = made.shape /\ getStrides(pw) = <<2, 1>>

\* the row-major linear index of (i[lo], .., i[N]) within the sizes shape[lo..N]
RECURSIVE LinearIndex(_, _, _, _)
LinearIndex(i, shape, lo, N) ==
    IF lo > N THEN 0
    ELSE i[lo] * SeqProduct(shape, lo + 1, N) + LinearIndex(i, shape, lo + 1, N)

\* the index of flatten<Nf> that index i of the input stands for
Flattened(i, shape, Nf) ==
    [d \in 1..Nf |-> IF d < Nf THEN i[d] ELSE LinearIndex(i, shape, Nf, Len(shape))]

\* C24: when the trailing N-Nf+1 dimensions of the input are row-major
\* contiguous, index (i_0, .., i_{Nf-2}, L) of flatten<Nf>, for L the
\* row-major linear index of (i_{Nf-1}, .., i_{N-1}) within the merged sizes,
\* has the offset from the data pointer that index i has in the input, and
\* these indexes are all the indexes of the flattened view, each met once.
C24_FlattenSameElements ==
    \A w \in Made("flatten") :
       LET vw == views[w]
           pw == views[vw.parent]
           N == pw.nd
           Nf == vw.arg
           shape == getShape(pw)
           image == { Flattened(i, shape, Nf) : i \in Indices(pw) }
       IN  ContiguousIn(shape, getStrides(pw), N - Nf + 1) =>
              /\ \A i \in Indices(pw) :
                    ElementAddress(vw, Flattened(i, shape, Nf)) - getData(vw)
                       = ElementAddress(pw, i) - getData(pw)
              /\ image = Indices(vw)
              /\ Cardinality(image) = Cardinality(Indices(pw))

C24_Witness ==
    \E w \in Made("flatten") :
       LET vw == views[w]
           pw == views[vw.parent]
       IN  /\ getShape(pw) = <<1, 2, 3>> /\ getStrides(pw) = <<6, 3, 1>>
           /\ vw.arg = 2
           /\ ContiguousIn(getShape(pw), getStrides(pw), 2)
           /\ Flattened(<<0, 1, 2>>, getShape(pw), 2) = <<0, 5>>
           /\ ElementAddress(vw, <<0, 5>>) = ElementAddress(pw, <<0, 1, 2>>)

====
